---- MODULE Spec2Model ----
(***************************************************************************)
(* A model of tegola's data-provider engine:                               *)
(*   - the process-wide driver registry of provider/provider.go            *)
(*     (Register, MVTRegister, Drivers, For, Cleanup),                     *)
(*   - the TilerUnion dispatch of provider/provider.go,                    *)
(*   - the postgis feature streamer (Provider.TileFeatures),               *)
(*   - the postgis native-tile query (Provider.MVTForLayers),              *)
(*   - the postgis layer catalog (Provider.AddLayer) and its extent and    *)
(*     zoom accessors (LayerExtent, LayerMinZoom, LayerMaxZoom).           *)
(* Each part has its own specification (SpecReg, SpecUnion, SpecTF,        *)
(* SpecMVT, SpecAdd, SpecZoom); the variables of the other parts stay at   *)
(* their initial values.                                                   *)
(***************************************************************************)
EXTENDS Integers, Sequences, FiniteSets, TLC

VARIABLES
    providersNil,   \* provider.go:150  providers == nil (the map was never made)
    providers,      \* provider.go:150  var providers map[string]pfns
    firstReg,       \* history: the pfns stored by each name's first successful registration
    ret,            \* the last registry call: its arguments, results and callbacks invoked
    tu,             \* a provider.TilerUnion value {Std, Mvt}
    uret,           \* the last TilerUnion call: its arguments, results, the side it reached
    layers,         \* postgis.go:33   Provider.layers, the layer catalog
    ctxErr,         \* what ctx.Err() returns: NoErr until the context is done
    pc,             \* TileFeatures: the position of the call
    call,           \* TileFeatures: the locals of the call in progress
    rows,           \* TileFeatures: the rows fetched so far, one record per rows.Next()
    cursorOpen,     \* the pgx.Rows handed out by pool.Query is not yet closed
    queries,        \* number of backend queries issued by the call
    sunk,           \* the row numbers passed to the sink fn, in call order
    warnings,       \* number of "[WARNING] Ignoring unsupported geometry" lines logged
    result,         \* the error value TileFeatures returned
    mret,           \* the last MVTForLayers call: its arguments, the query it sent, its results
    pret,           \* the last catalog call (AddLayer, LayerExtent, LayerMinZoom,
                    \* LayerMaxZoom): its arguments, the probes it sent, its results
    firstlayer,     \* postgis.go:35   Provider.firstlayer
    tracked,        \* postgis.go:697  len(providers), the postgis providers to clean up
    atlas           \* the last register.Maps call: its argument, the maps added, its error

regVars   == <<providersNil, providers, firstReg, ret>>
unionVars == <<tu, uret>>
tfVars    == <<layers, ctxErr, pc, call, rows, cursorOpen, queries, sunk, warnings, result>>
pgVars    == <<mret, pret, firstlayer, tracked, atlas>>
vars      == <<regVars, unionVars, tfVars, pgVars>>

Nil == "nil"

(***************************************************************************)
(* Error values.  Every error is a record with a kind, so that two errors  *)
(* can always be compared.                                                 *)
(***************************************************************************)
NoErr == [kind |-> "nil"]

ErrNilInitFunc == [kind |-> "ErrNilInitFunc"]

ErrAlreadyExists(name) == [kind |-> "AlreadyExists", Name |-> name]

ErrUnknownProvider(known, name) ==
    [kind |-> "ErrUnknownProvider", KnownProviders |-> known, Name |-> name]

ErrInvalidRegisteredProvider(name) ==
    [kind |-> "ErrInvalidRegisteredProvider", Name |-> name]

\* an error a constructor reports about its configuration
ConfigErr == [kind |-> "ConfigErr"]

(***************************************************************************)
(* The driver registry                                                     *)
(***************************************************************************)
Names        == {"postgis", "debug", "gpkg"}
InitFuncs    == {"initA", "initB"}
MVTInitFuncs == {"mvtInitA"}
CleanupFuncs == {"cleanupA"}

\* the largest number of arguments passed to the variadic Drivers(types...)
MaxTypes == 2

TypeStd == 1
TypeMvt == 2

RECURSIVE BitAnd(_, _)
BitAnd(a, b) ==
    IF a = 0 \/ b = 0 THEN 0
    ELSE (a % 2) * (b % 2) + 2 * BitAnd(a \div 2, b \div 2)

RECURSIVE BitOr(_, _)
BitOr(a, b) ==
    IF a = 0 THEN b
    ELSE IF b = 0 THEN a
    ELSE (IF a % 2 = 1 \/ b % 2 = 1 THEN 1 ELSE 0) + 2 * BitOr(a \div 2, b \div 2)

TypeAll == BitAnd(TypeStd, TypeMvt)

ProviderTypes == {TypeStd, TypeMvt}

TypeLists == UNION {[1..k -> ProviderTypes] : k \in 0..MaxTypes}

RECURSIVE providerFilterInclude(_)
providerFilterInclude(filters) ==
    IF filters = <<>> THEN 0
    ELSE BitOr(providerFilterInclude(SubSeq(filters, 1, Len(filters) - 1)),
               filters[Len(filters)])

\* (pf providerFilter) Is(ps ...providerType)
Is(pf, ps) == BitAnd(pf, providerFilterInclude(ps)) # 0

\* the zero value of TilerUnion
NilUnion == [Std |-> Nil, Mvt |-> Nil]

EmptyTable == [n \in {} |-> Nil]

stdPfns(init, cleanup) == [init |-> init, mvtInit |-> Nil, cleanup |-> cleanup]

mvtPfns(init, cleanup) == [init |-> Nil, mvtInit |-> init, cleanup |-> cleanup]

Put(tab, name, p) == [n \in DOMAIN tab \cup {name} |-> IF n = name THEN p ELSE tab[n]]

\* the mutants of Register: the duplicate overwrites the entry; the nil check is missing
RegisterOverwrites(tab, name, init, cleanup) ==
    IF init = Nil THEN [err |-> ErrNilInitFunc, tab |-> tab]
    ELSE [err |-> NoErr, tab |-> Put(tab, name, stdPfns(init, cleanup))]

RegisterNoNilCheck(tab, name, init, cleanup) ==
    IF name \in DOMAIN tab THEN [err |-> ErrAlreadyExists(name), tab |-> tab]
    ELSE [err |-> NoErr, tab |-> Put(tab, name, stdPfns(init, cleanup))]

\* Register's outcome on table tab: the error returned and the table left behind
RegisterResult(tab, name, init, cleanup) ==
    IF init = Nil THEN [err |-> ErrNilInitFunc, tab |-> tab]
    ELSE IF name \in DOMAIN tab THEN [err |-> ErrAlreadyExists(name), tab |-> tab]
    ELSE [err |-> NoErr, tab |-> Put(tab, name, stdPfns(init, cleanup))]

MVTRegisterResult(tab, name, init, cleanup) ==
    IF init = Nil THEN [err |-> ErrNilInitFunc, tab |-> tab]
    ELSE IF name \in DOMAIN tab THEN [err |-> ErrAlreadyExists(name), tab |-> tab]
    ELSE [err |-> NoErr, tab |-> Put(tab, name, mvtPfns(init, cleanup))]

\* Drivers keeps the names of one kind only
DriversStdOnly(isNil, tab, types) ==
    IF isNil THEN {} ELSE {k \in DOMAIN tab : tab[k].init # Nil}

\* Drivers(types...): the names it returns (the map is ranged over in no fixed
\* order, each key once, so the list is modelled by the set of its elements)
Drivers(isNil, tab, types) ==
    IF isNil THEN {}
    ELSE LET filter == providerFilterInclude(types)
             all    == filter = 0 \/ filter = TypeAll
             mvt    == Is(filter, <<TypeMvt>>)
             std    == Is(filter, <<TypeStd>>)
         IN  {k \in DOMAIN tab :
                 CASE all -> TRUE
                   [] mvt -> tab[k].mvtInit # Nil
                   [] std -> tab[k].init # Nil
                   [] OTHER -> FALSE}

\* what a constructor can hand back: a Tiler (or nil) and an error (or nil)
CtorOutcomes == [tiler : {Nil, "tiler"}, err : {NoErr, ConfigErr}]

\* For(name, config): the union and error returned and the constructor invoked;
\* out is what the constructor returns for this config
ForResult(isNil, tab, name, out) ==
    LET driversList == Drivers(isNil, tab, <<>>)
    IN  IF isNil
        THEN [val |-> NilUnion, err |-> ErrUnknownProvider(driversList, ""), ctor |-> Nil]
        ELSE IF name \notin DOMAIN tab
        THEN [val |-> NilUnion, err |-> ErrUnknownProvider(driversList, name), ctor |-> Nil]
        ELSE IF tab[name].init # Nil
        THEN [val |-> [Std |-> out.tiler, Mvt |-> Nil], err |-> out.err,
              ctor |-> tab[name].init]
        ELSE IF tab[name].mvtInit # Nil
        THEN [val |-> [Std |-> Nil, Mvt |-> out.tiler], err |-> out.err,
              ctor |-> tab[name].mvtInit]
        ELSE [val |-> NilUnion, err |-> ErrInvalidRegisteredProvider(name), ctor |-> Nil]

\* the orders in which a range over the map can visit its keys
Orders(S) == {o \in [1..Cardinality(S) -> S] : \A i, j \in 1..Cardinality(S) : o[i] = o[j] => i = j}

NoCalls == [n \in Names |-> 0]

\* Cleanup stops at the first driver that has no cleanup callback
RECURSIVE CleanupStopsAtNil(_, _)
CleanupStopsAtNil(tab, order) ==
    IF order = <<>> THEN NoCalls
    ELSE IF tab[Head(order)].cleanup = Nil THEN NoCalls
    ELSE LET rest == CleanupStopsAtNil(tab, Tail(order))
         IN  [rest EXCEPT ![Head(order)] = @ + 1]

\* Cleanup(): how often each driver's cleanup callback is invoked when the map
\* is ranged over in the given order
RECURSIVE CleanupCalls(_, _)
CleanupCalls(tab, order) ==
    IF order = <<>> THEN NoCalls
    ELSE LET rest == CleanupCalls(tab, Tail(order))
         IN  IF tab[Head(order)].cleanup # Nil
             THEN [rest EXCEPT ![Head(order)] = @ + 1]
             ELSE rest

(***************************************************************************)
(* TilerUnion: every forwarding method tries Std, then Mvt.  The backend   *)
(* behind a side is any implementation of provider.Layerer: what it        *)
(* answers (rep) is an input of the call.                                  *)
(***************************************************************************)
LayerIDs == {"roads", "lakes"}

\* geom.Extent{-180.0, -85.05112877980659, 180.0, 85.0511287798066}
WorldExtent == <<"-180.0", "-85.05112877980659", "180.0", "85.0511287798066">>

\* an extent a backend reports for one of its layers
LayerBox == <<"116.0", "39.0", "117.0", "40.0">>

\* the zero value of geom.Extent
ZeroExtent == <<"0", "0", "0", "0">>

Extents == {WorldExtent, LayerBox}

BackendErr == [kind |-> "BackendErr"]

BackendZooms == {0, 5, 20}

DefaultMinZoom == 0
DefaultMaxZoom == 16

Unions == [Std : {Nil, "stdTiler"}, Mvt : {Nil, "mvtTiler"}]

\* the side of the union a forwarding method reaches
Side(u) == IF u.Std # Nil THEN "Std" ELSE IF u.Mvt # Nil THEN "Mvt" ELSE "none"

NoURet ==
    [op |-> "none", lyrID |-> Nil, reached |-> "none", err |-> NoErr, infos |-> {},
     info |-> Nil, found |-> FALSE, extent |-> ZeroExtent, zoom |-> 0]

\* Layers reports success with no layers when neither side is populated
LayersNoError(u, rep) ==
    IF Side(u) = "none"
    THEN [NoURet EXCEPT !.op = "Layers"]
    ELSE [NoURet EXCEPT !.op = "Layers", !.reached = Side(u),
                        !.infos = rep.infos, !.err = rep.err]

\* (tu TilerUnion) Layers()
LayersResult(u, rep) ==
    IF u.Std # Nil
    THEN [NoURet EXCEPT !.op = "Layers", !.reached = "Std",
                        !.infos = rep.infos, !.err = rep.err]
    ELSE IF u.Mvt # Nil
    THEN [NoURet EXCEPT !.op = "Layers", !.reached = "Mvt",
                        !.infos = rep.infos, !.err = rep.err]
    ELSE [NoURet EXCEPT !.op = "Layers", !.err = ErrNilInitFunc]

\* (tu TilerUnion) Layer(lyrID)
LayerResult(u, lyrID, rep) ==
    IF u.Std # Nil
    THEN [NoURet EXCEPT !.op = "Layer", !.lyrID = lyrID, !.reached = "Std",
                        !.info = rep.info, !.found = rep.found]
    ELSE IF u.Mvt # Nil
    THEN [NoURet EXCEPT !.op = "Layer", !.lyrID = lyrID, !.reached = "Mvt",
                        !.info = rep.info, !.found = rep.found]
    ELSE [NoURet EXCEPT !.op = "Layer", !.lyrID = lyrID]

\* (tu TilerUnion) AddLayer(config)
AddLayerResult(u, rep) ==
    IF u.Std # Nil
    THEN [NoURet EXCEPT !.op = "AddLayer", !.reached = "Std", !.err = rep.err]
    ELSE IF u.Mvt # Nil
    THEN [NoURet EXCEPT !.op = "AddLayer", !.reached = "Mvt", !.err = rep.err]
    ELSE [NoURet EXCEPT !.op = "AddLayer", !.err = ErrNilInitFunc]

\* LayerExtent fails without handing back the world extent
LayerExtentNoDefault(u, lyrID, rep) ==
    IF Side(u) = "none"
    THEN [NoURet EXCEPT !.op = "LayerExtent", !.lyrID = lyrID, !.err = ErrNilInitFunc]
    ELSE [NoURet EXCEPT !.op = "LayerExtent", !.lyrID = lyrID, !.reached = Side(u),
                        !.extent = rep.extent, !.err = rep.err]

\* (tu TilerUnion) LayerExtent(lyrID)
LayerExtentResult(u, lyrID, rep) ==
    IF u.Std # Nil
    THEN [NoURet EXCEPT !.op = "LayerExtent", !.lyrID = lyrID, !.reached = "Std",
                        !.extent = rep.extent, !.err = rep.err]
    ELSE IF u.Mvt # Nil
    THEN [NoURet EXCEPT !.op = "LayerExtent", !.lyrID = lyrID, !.reached = "Mvt",
                        !.extent = rep.extent, !.err = rep.err]
    ELSE [NoURet EXCEPT !.op = "LayerExtent", !.lyrID = lyrID,
                        !.extent = WorldExtent, !.err = ErrNilInitFunc]

\* (tu TilerUnion) LayerMinZoom(lyrID)
LayerMinZoomResult(u, lyrID, rep) ==
    IF u.Std # Nil
    THEN [NoURet EXCEPT !.op = "LayerMinZoom", !.lyrID = lyrID, !.reached = "Std",
                        !.zoom = rep.zoom]
    ELSE IF u.Mvt # Nil
    THEN [NoURet EXCEPT !.op = "LayerMinZoom", !.lyrID = lyrID, !.reached = "Mvt",
                        !.zoom = rep.zoom]
    ELSE [NoURet EXCEPT !.op = "LayerMinZoom", !.lyrID = lyrID, !.zoom = DefaultMinZoom]

\* (tu TilerUnion) LayerMaxZoom(lyrID)
LayerMaxZoomResult(u, lyrID, rep) ==
    IF u.Std # Nil
    THEN [NoURet EXCEPT !.op = "LayerMaxZoom", !.lyrID = lyrID, !.reached = "Std",
                        !.zoom = rep.zoom]
    ELSE IF u.Mvt # Nil
    THEN [NoURet EXCEPT !.op = "LayerMaxZoom", !.lyrID = lyrID, !.reached = "Mvt",
                        !.zoom = rep.zoom]
    ELSE [NoURet EXCEPT !.op = "LayerMaxZoom", !.lyrID = lyrID, !.zoom = DefaultMaxZoom]

(***************************************************************************)
(* postgis: Provider.TileFeatures.  The call is a sequence of steps, so    *)
(* that the context can be cancelled between any two of them.              *)
(***************************************************************************)
\* the largest number of rows a query result holds
MaxRows == 3

Canceled         == [kind |-> "context.Canceled"]
DeadlineExceeded == [kind |-> "context.DeadlineExceeded"]

\* the errors ctx.Err() reports once the context is done
CtxErrors == {Canceled, DeadlineExceeded}

ErrLayerNotFound(lyrID) == [kind |-> "ErrLayerNotFound", LayerName |-> lyrID]

ErrGeomFieldNotFound(geomField, name) ==
    [kind |-> "ErrGeomFieldNotFound", GeomFieldName |-> geomField, LayerName |-> name]

\* fmt.Errorf("...: %v", err): a new error that only prints its cause
Wrapped(at, cause) == [kind |-> "fmt.Errorf", at |-> at, cause |-> cause.kind]

QueryErr == [kind |-> "pgx.QueryErr"]
RowsErr  == [kind |-> "pgx.RowsErr"]
TokenErr == [kind |-> "replaceTokens"]
ValuesErr == [kind |-> "pgx.ValuesErr"]
DecipherErr == [kind |-> "decipherFields"]
WkbErr   == [kind |-> "wkb.DecodeErr"]
SinkErr  == [kind |-> "sinkErr"]

\* a catalog entry as AddLayer stores it
MkLayer(id) ==
    [id |-> id, name |-> id, idField |-> "gid", geomField |-> "geom", srid |-> 3857,
     sql |-> <<"SELECT", id, "!BBOX!">>, geomType |-> "geom.Polygon"]

\* the zero value of Layer
ZeroLayer ==
    [id |-> "", name |-> "", idField |-> "", geomField |-> "", srid |-> 0, sql |-> <<>>,
     geomType |-> Nil]

Catalogs == {[id \in S |-> MkLayer(id)] : S \in SUBSET LayerIDs}

\* the column sets a result can have
ColumnSets == {{"gid", "geom", "name"}, {"gid", "wkb_geometry", "name"}}

\* what decoding one fetched row can come to
RowKinds ==
    {"ok", "valuesErr", "decipherCtx", "decipherErr", "emptyGeom", "unknownGeom", "wkbErr"}

NoCall ==
    [lyrID |-> Nil, plyr |-> ZeroLayer, fdescs |-> {}, reported |-> <<>>, atCheck |-> NoErr,
     sinkRet |-> NoErr]

\* a missing layer id is looked up as the zero Layer and the call goes on
LookupMissingOk(cat, lyrID) ==
    IF lyrID \in DOMAIN cat THEN [plyr |-> cat[lyrID], ok |-> TRUE]
    ELSE [plyr |-> ZeroLayer, ok |-> TRUE]

\* plyr, ok := p.layers[lyrID]
Lookup(cat, lyrID) ==
    IF lyrID \in DOMAIN cat THEN [plyr |-> cat[lyrID], ok |-> TRUE]
    ELSE [plyr |-> ZeroLayer, ok |-> FALSE]

\* the context check before the query: the error to return, NoErr to go on
QueryCtxCheck(ctxerr) == ctxerr

\* the per-row context check is missing
RowCtxCheckSkipped(ctxerr) == NoErr

\* the context check after rows.Next(): the error to return, NoErr to go on
RowCtxCheck(ctxerr) == ctxerr

\* every result is taken to have the geometry field
GeomFieldAlwaysFound(fdescs, geomField) == TRUE

\* lines 546-553: the loop over the field descriptions looking for the geometry field
GeomFieldFound(fdescs, geomField) == geomField \in fdescs

\* only a row without geometry data is skipped
SkipsOnlyEmpty(kind) == kind = "emptyGeom"

\* lines 584-600: the rows the loop skips with continue: no geometry data, or a
\* geometry wkb.DecodeBytes rejects with ErrUnknownGeometryType
SkipsRow(kind) == kind \in {"emptyGeom", "unknownGeom"}

\* the sink's error is wrapped before it is returned
SinkErrWrapped(serr) == IF serr = NoErr THEN NoErr ELSE Wrapped("sink", serr)

\* lines 613-616: the error to return after fn(&feature), NoErr to go on
SinkCheck(serr) == serr

\* the "only report to the log once" test of the unsupported-geometry case
Report(reported, rplfn) ==
    IF reported = <<>> \/ reported = rplfn
    THEN [log |-> TRUE, reported |-> rplfn]
    ELSE [log |-> FALSE, reported |-> reported]

NoRet ==
    [op |-> "none", name |-> Nil, init |-> Nil, cleanup |-> Nil, types |-> <<>>,
     err |-> NoErr, list |-> {}, val |-> NilUnion, ctor |-> Nil,
     cleaned |-> NoCalls, pre |-> EmptyTable, preNil |-> TRUE]

\* the history of first successful registrations after a call on name
Recorded(hist, name, res) ==
    IF res.err = NoErr /\ name \notin DOMAIN hist
    THEN Put(hist, name, res.tab[name])
    ELSE hist

RegInit ==
    /\ providersNil = TRUE
    /\ providers = EmptyTable
    /\ firstReg = EmptyTable
    /\ ret = NoRet

UnionIdle ==
    /\ tu = NilUnion
    /\ uret = NoURet

\* no MVTForLayers call was made yet
NoMRet ==
    [called |-> FALSE, lyrs |-> <<>>, atCall |-> NoErr, logged |-> <<>>, sqls |-> <<>>,
     queries |-> 0, data |-> <<>>, err |-> NoErr]

\* a layer configuration with no key set
NoCfg ==
    [id |-> Nil, name |-> Nil, geomfld |-> Nil, idfld |-> Nil, geomType |-> Nil,
     sql |-> <<>>, type |-> Nil]

\* geom.Extent{-180.0, -85.05112877980659, 180.0, 85.0511287798066}, in thousandths
\* of a degree
WorldBox == <<-180000, -85051, 180000, 85051>>

\* no catalog call was made yet
NoPRet ==
    [op |-> Nil, id |-> Nil, cfg |-> NoCfg, ans |-> [kind |-> Nil], err |-> NoErr,
     probes |-> 0, ext |-> WorldBox, zoom |-> 0,
     prev |-> [same |-> FALSE, ext |-> WorldBox, zoom |-> 0], addErrs |-> <<>>,
     prof |-> [drop |-> 0, fail |-> 0, tok |-> FALSE]]

PGIdle ==
    /\ mret = NoMRet
    /\ pret = NoPRet
    /\ firstlayer = ""
    /\ tracked = 0
    /\ atlas = [called |-> FALSE, cfg |-> <<>>, maps |-> <<>>, err |-> NoErr, at |-> <<0, 0>>]

TFIdle ==
    /\ layers = EmptyTable
    /\ ctxErr = NoErr
    /\ pc = "idle"
    /\ call = NoCall
    /\ rows = <<>>
    /\ cursorOpen = FALSE
    /\ queries = 0
    /\ sunk = <<>>
    /\ warnings = 0
    /\ result = NoErr

Register(name, init, cleanup) ==
    LET res == RegisterResult(providers, name, init, cleanup)
    IN  /\ providersNil' = (providersNil /\ init = Nil)
        /\ providers' = res.tab
        /\ firstReg' = Recorded(firstReg, name, res)
        /\ ret' = [NoRet EXCEPT !.op = "Register", !.name = name, !.init = init,
                                !.cleanup = cleanup, !.err = res.err,
                                !.pre = providers, !.preNil = providersNil]
        /\ UNCHANGED <<unionVars, tfVars, pgVars>>

MVTRegister(name, init, cleanup) ==
    LET res == MVTRegisterResult(providers, name, init, cleanup)
    IN  /\ providersNil' = (providersNil /\ init = Nil)
        /\ providers' = res.tab
        /\ firstReg' = Recorded(firstReg, name, res)
        /\ ret' = [NoRet EXCEPT !.op = "MVTRegister", !.name = name, !.init = init,
                                !.cleanup = cleanup, !.err = res.err,
                                !.pre = providers, !.preNil = providersNil]
        /\ UNCHANGED <<unionVars, tfVars, pgVars>>

DriversCall(types) ==
    /\ ret' = [NoRet EXCEPT !.op = "Drivers", !.types = types,
                            !.list = Drivers(providersNil, providers, types),
                            !.pre = providers, !.preNil = providersNil]
    /\ UNCHANGED <<providersNil, providers, firstReg, unionVars, tfVars, pgVars>>

For(name, out) ==
    LET res == ForResult(providersNil, providers, name, out)
    IN  /\ ret' = [NoRet EXCEPT !.op = "For", !.name = name, !.err = res.err,
                                !.val = res.val, !.ctor = res.ctor,
                                !.list = IF res.err.kind = "ErrUnknownProvider"
                                         THEN res.err.KnownProviders ELSE {},
                                !.pre = providers, !.preNil = providersNil]
        /\ UNCHANGED <<providersNil, providers, firstReg, unionVars, tfVars, pgVars>>

Cleanup(order) ==
    /\ ret' = [NoRet EXCEPT !.op = "Cleanup", !.cleaned = CleanupCalls(providers, order),
                            !.pre = providers, !.preNil = providersNil]
    /\ UNCHANGED <<providersNil, providers, firstReg, unionVars, tfVars, pgVars>>

NextReg ==
    \/ \E name \in Names, init \in InitFuncs \cup {Nil}, cleanup \in CleanupFuncs \cup {Nil} :
           Register(name, init, cleanup)
    \/ \E name \in Names, init \in MVTInitFuncs \cup {Nil}, cleanup \in CleanupFuncs \cup {Nil} :
           MVTRegister(name, init, cleanup)
    \/ \E types \in TypeLists : DriversCall(types)
    \/ \E name \in Names, out \in CtorOutcomes : For(name, out)
    \/ \E order \in Orders(DOMAIN providers) : Cleanup(order)

InitReg == RegInit /\ UnionIdle /\ TFIdle /\ PGIdle

SpecReg == InitReg /\ [][NextReg]_vars

(***************************************************************************)
(* TilerUnion calls                                                        *)
(***************************************************************************)
RegIdle == RegInit

UnionInit ==
    /\ tu \in Unions
    /\ uret = NoURet

\* the layer ids a caller asks about: the backend's and one it does not have
AskedIDs == LayerIDs \cup {"nosuch"}

TULayers(rep) ==
    /\ uret' = LayersResult(tu, rep)
    /\ UNCHANGED <<tu, regVars, tfVars, pgVars>>

TULayer(lyrID, rep) ==
    /\ uret' = LayerResult(tu, lyrID, rep)
    /\ UNCHANGED <<tu, regVars, tfVars, pgVars>>

TUAddLayer(rep) ==
    /\ uret' = AddLayerResult(tu, rep)
    /\ UNCHANGED <<tu, regVars, tfVars, pgVars>>

TULayerExtent(lyrID, rep) ==
    /\ uret' = LayerExtentResult(tu, lyrID, rep)
    /\ UNCHANGED <<tu, regVars, tfVars, pgVars>>

TULayerMinZoom(lyrID, rep) ==
    /\ uret' = LayerMinZoomResult(tu, lyrID, rep)
    /\ UNCHANGED <<tu, regVars, tfVars, pgVars>>

TULayerMaxZoom(lyrID, rep) ==
    /\ uret' = LayerMaxZoomResult(tu, lyrID, rep)
    /\ UNCHANGED <<tu, regVars, tfVars, pgVars>>

NextUnion ==
    \/ \E rep \in [infos : SUBSET LayerIDs, err : {NoErr, BackendErr}] : TULayers(rep)
    \/ \E lyrID \in AskedIDs, rep \in [info : LayerIDs \cup {Nil}, found : BOOLEAN] :
           TULayer(lyrID, rep)
    \/ \E rep \in [err : {NoErr, BackendErr}] : TUAddLayer(rep)
    \/ \E lyrID \in AskedIDs, rep \in [extent : Extents, err : {NoErr, BackendErr}] :
           TULayerExtent(lyrID, rep)
    \/ \E lyrID \in AskedIDs, rep \in [zoom : BackendZooms] : TULayerMinZoom(lyrID, rep)
    \/ \E lyrID \in AskedIDs, rep \in [zoom : BackendZooms] : TULayerMaxZoom(lyrID, rep)

InitUnion == RegIdle /\ UnionInit /\ TFIdle /\ PGIdle

SpecUnion == InitUnion /\ [][NextUnion]_vars

(***************************************************************************)
(* postgis TileFeatures, step by step                                      *)
(***************************************************************************)
TFInit ==
    /\ layers \in Catalogs
    /\ ctxErr = NoErr
    /\ pc = "idle"
    /\ call = NoCall
    /\ rows = <<>>
    /\ cursorOpen = FALSE
    /\ queries = 0
    /\ sunk = <<>>
    /\ warnings = 0
    /\ result = NoErr

\* the cursor is left open when the call returns
ReturnNoClose(err) ==
    /\ result' = err
    /\ pc' = "done"
    /\ UNCHANGED cursorOpen

\* return err, running the deferred rows.Close() if the cursor was opened
Return(err) ==
    /\ result' = err
    /\ cursorOpen' = FALSE
    /\ pc' = "done"

\* the context is cancelled or its deadline passes, at any point of the call
CtxDone(e) ==
    /\ ctxErr = NoErr
    /\ pc # "done"
    /\ ctxErr' = e
    /\ UNCHANGED <<layers, pc, call, rows, cursorOpen, queries, sunk, warnings, result,
                   regVars, unionVars, pgVars>>

\* lines 518-526: the catalog lookup and replaceTokens
TFCall(lyrID, tokErr) ==
    /\ pc = "idle"
    /\ LET l == Lookup(layers, lyrID)
       IN  /\ call' = [call EXCEPT !.lyrID = lyrID, !.plyr = l.plyr]
           /\ IF ~l.ok THEN Return(ErrLayerNotFound(lyrID))
              ELSE IF tokErr THEN Return(Wrapped("replaceTokens", TokenErr))
              ELSE /\ pc' = "ctx"
                   /\ UNCHANGED <<result, cursorOpen>>
    /\ UNCHANGED <<layers, ctxErr, rows, queries, sunk, warnings, regVars, unionVars, pgVars>>

\* lines 532-535: the context check before the query
TFQueryCtx ==
    /\ pc = "ctx"
    /\ call' = [call EXCEPT !.atCheck = ctxErr]
    /\ IF QueryCtxCheck(ctxErr) # NoErr THEN Return(QueryCtxCheck(ctxErr))
       ELSE /\ pc' = "query"
            /\ UNCHANGED <<result, cursorOpen>>
    /\ UNCHANGED <<layers, ctxErr, rows, queries, sunk, warnings, regVars, unionVars, pgVars>>

\* lines 537-544: p.pool.Query(sql), defer rows.Close(), rows.FieldDescriptions()
TFQuery(qerr, cols) ==
    /\ pc = "query"
    /\ queries' = queries + 1
    /\ IF qerr # NoErr
       THEN /\ Return(Wrapped("query", qerr))
            /\ UNCHANGED call
       ELSE /\ cursorOpen' = TRUE
            /\ call' = [call EXCEPT !.fdescs = cols]
            /\ pc' = "fdescs"
            /\ UNCHANGED result
    /\ UNCHANGED <<layers, ctxErr, rows, sunk, warnings, regVars, unionVars, pgVars>>

\* lines 546-559: the geometry field must be among the columns
TFGeomField ==
    /\ pc = "fdescs"
    /\ IF ~GeomFieldFound(call.fdescs, call.plyr.geomField)
       THEN Return(ErrGeomFieldNotFound(call.plyr.geomField, call.plyr.name))
       ELSE /\ pc' = "next"
            /\ UNCHANGED <<result, cursorOpen>>
    /\ UNCHANGED <<layers, ctxErr, call, rows, queries, sunk, warnings, regVars, unionVars, pgVars>>

\* line 562 and 619: rows.Next() fetches a row, or ends the loop with rows.Err()
TFNext(more, rerr) ==
    /\ pc = "next"
    /\ IF more /\ Len(rows) < MaxRows
       THEN /\ rows' = Append(rows, [afterDone |-> ctxErr # NoErr, kind |-> "fetched"])
            /\ pc' = "rowctx"
            /\ UNCHANGED <<result, cursorOpen>>
       ELSE /\ Return(rerr)
            /\ UNCHANGED rows
    /\ UNCHANGED <<layers, ctxErr, call, queries, sunk, warnings, regVars, unionVars, pgVars>>

\* lines 563-566: the context check of the row
TFRowCtx ==
    /\ pc = "rowctx"
    /\ IF RowCtxCheck(ctxErr) # NoErr THEN Return(RowCtxCheck(ctxErr))
       ELSE /\ pc' = "decode"
            /\ UNCHANGED <<result, cursorOpen>>
    /\ UNCHANGED <<layers, ctxErr, call, rows, queries, sunk, warnings, regVars, unionVars, pgVars>>

\* lines 568-604: rows.Values(), decipherFields, wkb.DecodeBytes
TFDecode(kind) ==
    /\ pc = "decode"
    /\ kind = "decipherCtx" => ctxErr # NoErr
    /\ rows' = [rows EXCEPT ![Len(rows)].kind = kind]
    /\ LET rep == Report(call.reported, <<call.lyrID, call.plyr.geomField>>)
       IN  /\ call' = IF kind = "unknownGeom"
                      THEN [call EXCEPT !.reported = rep.reported] ELSE call
           /\ warnings' = IF kind = "unknownGeom" /\ rep.log THEN warnings + 1 ELSE warnings
    /\ CASE kind = "valuesErr" -> Return(Wrapped("values", ValuesErr))
         [] kind = "decipherCtx" ->
                IF ctxErr = Canceled THEN Return(ctxErr)
                ELSE Return(Wrapped("decipher", ctxErr))
         [] kind = "decipherErr" -> Return(Wrapped("decipher", DecipherErr))
         [] kind = "wkbErr" -> Return(Wrapped("wkb", WkbErr))
         [] SkipsRow(kind) ->
                /\ pc' = "next"
                /\ UNCHANGED <<result, cursorOpen>>
         [] OTHER ->
                /\ pc' = "sink"
                /\ UNCHANGED <<result, cursorOpen>>
    /\ UNCHANGED <<layers, ctxErr, queries, sunk, regVars, unionVars, pgVars>>

\* lines 606-616: the feature is passed to fn; its error ends the call
TFSink(serr) ==
    /\ pc = "sink"
    /\ sunk' = Append(sunk, Len(rows))
    /\ call' = [call EXCEPT !.sinkRet = serr]
    /\ IF SinkCheck(serr) # NoErr THEN Return(SinkCheck(serr))
       ELSE /\ pc' = "next"
            /\ UNCHANGED <<result, cursorOpen>>
    /\ UNCHANGED <<layers, ctxErr, rows, queries, warnings, regVars, unionVars, pgVars>>

NextTF ==
    \/ \E e \in CtxErrors : CtxDone(e)
    \/ \E lyrID \in AskedIDs, tokErr \in BOOLEAN : TFCall(lyrID, tokErr)
    \/ TFQueryCtx
    \/ \E qerr \in {NoErr, QueryErr}, cols \in ColumnSets : TFQuery(qerr, cols)
    \/ TFGeomField
    \/ \E more \in BOOLEAN, rerr \in {NoErr, RowsErr} : TFNext(more, rerr)
    \/ TFRowCtx
    \/ \E kind \in RowKinds : TFDecode(kind)
    \/ \E serr \in {NoErr, SinkErr, Canceled} : TFSink(serr)

InitTF == RegIdle /\ UnionIdle /\ TFInit /\ PGIdle

SpecTF == InitTF /\ [][NextTF]_vars

(***************************************************************************)
(* postgis Provider.MVTForLayers (postgis.go:623-691): one combined query  *)
(* that encodes every requested layer as a named tile layer.               *)
(***************************************************************************)

\* the longest layer list passed to MVTForLayers
MaxLayers == 3

\* the provider.Layer values a caller passes: a layer id and an output name; the
\* id is not in the catalog when the catalog lacks that layer
Entries ==
    {[ID |-> "roads", MVTName |-> "transport"],
     [ID |-> "lakes", MVTName |-> "water"]}

LayerLists == UNION {[1..n -> Entries] : n \in 0..MaxLayers}

\* replaceTokens(sql, &l, tile, false): the bounding-box placeholder becomes an
\* intersects test against the tile's envelope, the other text is passed through
ReplaceTokens(sql) ==
    [i \in DOMAIN sql |-> IF sql[i] = "!BBOX!" THEN "ST_MakeEnvelope(tile)" ELSE sql[i]]

\* lines 650-666: (SELECT ST_AsMVT(q, name, extent, geom[, id]) AS data FROM (sql) AS q);
\* the id argument is there when the layer has an id field
AsMVT(entry, l, sql) ==
    [name |-> entry.MVTName, extent |-> "tegola.DefaultExtent", geom |-> l.geomField,
     id |-> IF l.idField # "" THEN l.idField ELSE Nil, sql |-> sql]

\* the new expression is put in front of the others
PrependSql(sqls, asmvt) == <<asmvt>> \o sqls

\* line 667: sqls = append(sqls, asmvt)
AppendSql(sqls, asmvt) == Append(sqls, asmvt)

\* lines 629-668: the loop over the first n entries; an id that is not in the
\* catalog is only logged, and the loop goes on with the zero Layer
RECURSIVE MVTSqls(_, _, _)
MVTSqls(cat, lyrs, n) ==
    IF n = 0 THEN <<>>
    ELSE LET l == Lookup(cat, lyrs[n].ID).plyr
         IN  AppendSql(MVTSqls(cat, lyrs, n - 1), AsMVT(lyrs[n], l, ReplaceTokens(l.sql)))

\* the whole call; failAt is the entry whose replaceTokens fails (none when it
\* is not an index of lyrs), qerr the outcome of QueryRow(fsql).Scan(&data).
\* ctx is never read.
MVTForLayers(lyrs, failAt, qerr) ==
    LET n      == Len(lyrs)
        failed == failAt \in 1..n
        seen   == IF failed THEN failAt ELSE n
        sqls   == MVTSqls(layers, lyrs, n)
    IN  /\ mret' =
              [called  |-> TRUE,
               lyrs    |-> lyrs,
               atCall  |-> ctxErr,
               logged  |-> SelectSeq([i \in 1..seen |-> lyrs[i].ID],
                                     LAMBDA id : ~Lookup(layers, id).ok),
               sqls    |-> IF failed THEN <<>> ELSE sqls,
               queries |-> IF failed THEN 0 ELSE 1,
               \* the backend's || puts the blobs in the order of the expressions
               data    |-> IF failed \/ qerr # NoErr THEN <<>>
                           ELSE [i \in 1..n |-> [blob |-> sqls[i].name]],
               err     |-> IF failed THEN TokenErr ELSE qerr]
        /\ UNCHANGED <<pret, firstlayer, tracked, atlas, regVars, unionVars, tfVars>>

NextMVT ==
    \/ \E e \in CtxErrors : CtxDone(e)
    \/ \E lyrs \in LayerLists, failAt \in 0..MaxLayers, qerr \in {NoErr, QueryErr} :
           MVTForLayers(lyrs, failAt, qerr)

InitMVT == RegIdle /\ UnionIdle /\ TFInit /\ PGIdle

SpecMVT == InitMVT /\ [][NextMVT]_vars

(***************************************************************************)
(* The postgis layer catalog: provider.GetBoundZoomLevel, the extent and   *)
(* zoom probes (postgis.go:386-495), Provider.AddLayer (713-845) and the   *)
(* accessors LayerExtent, LayerMinZoom, LayerMaxZoom (848-875).            *)
(* Coordinates are integers, in thousandths of a degree.                   *)
(***************************************************************************)

ZoomMax == 21
WorldPxHeight == 256
WorldPxWidth == 256

\* the ceiling of the max-zoom detection
maxZoom == 16

\* the extents the backend's ST_Extent can report: the world, a country, a city
\* block, a single parcel, and a box that spans the date line
Boxes ==
    {WorldBox,
     <<73000, 18000, 135000, 54000>>,
     <<116390, 39900, 116400, 39910>>,
     <<116391, 39907, 116392, 39908>>,
     <<170000, -20000, -170000, -10000>>}

\* provider.go:330-334: max(min(radX2, Pi), -Pi) / 2 with
\* radX2 = log((1 + sin) / (1 - sin)) / 2, here divided by Pi and counted in
\* 1e-8ths: the values of the float expression at the latitudes of Boxes
latRad(lat) ==
    CASE lat = -85051 -> -50000000
      [] lat = -20000 -> -5671940
      [] lat = -10000 -> -2791989
      [] lat = 18000  -> 5084336
      [] lat = 39900  -> 12105849
      [] lat = 39907  -> 12108384
      [] lat = 39908  -> 12108746
      [] lat = 39910  -> 12109471
      [] lat = 54000  -> 17891836
      [] lat = 85051  -> 50000000

\* provider.go:335-337: math.Floor(math.Log(n / d) / LN2) for n, d > 0
RECURSIVE FloorLog2(_, _)
FloorLog2(n, d) ==
    IF n < d THEN FloorLog2(2 * n, d) - 1
    ELSE IF 2 * d <= n THEN FloorLog2(n, 2 * d) + 1
    ELSE 0

\* provider.go:324-358
GetBoundZoomLevel(bound, mapWidthPx, mapHeighPx) ==
    LET latFraction == latRad(bound[4]) - latRad(bound[2])
        diff        == bound[3] - bound[1]
        lngDiff     == IF diff < 0 THEN diff + 360000 ELSE diff
        \* mapPx / worldPx / fraction, with the fraction's unit moved to the numerator
        latZoom     == FloorLog2(mapHeighPx * (100000000 \div WorldPxHeight), latFraction)
        lngZoom     == FloorLog2((mapWidthPx * 360000) \div WorldPxWidth, lngDiff)
        rzoom       == IF latZoom < lngZoom THEN latZoom ELSE lngZoom
    IN  IF rzoom > ZoomMax THEN ZoomMax ELSE rzoom

\* what the ST_Extent probe comes to: replaceTokens fails and no query is sent,
\* the query or the Scan fails, the text has no BOX(...) pattern, or it is the
\* text of a box, whose numbers at the positions bad are no numbers
ExtentAnswers ==
    {[kind |-> k, box |-> WorldBox, bad |-> {}] : k \in {"tokErr", "scanErr", "noBox"}}
        \cup {[kind |-> "box", box |-> b, bad |-> {}] : b \in Boxes}
        \cup {[kind |-> "box", box |-> <<73000, 18000, 135000, 54000>>, bad |-> {1}]}

\* what the COUNT(*) probes of one call come to: the count is 1024 below zoom
\* drop and 1023 from it on; the probe at zoom fail fails, in replaceTokens
\* (tok) or in the query
CountProfiles ==
    {[drop |-> d, fail |-> 99, tok |-> FALSE] : d \in {0, 9, 99}}
        \cup {[drop |-> 99, fail |-> 6, tok |-> t] : t \in BOOLEAN}

\* postgis.go:386-442; l points to the caller's copy of the descriptor, so the
\* geometry field name the function writes to it is lost on return
inspectLayerExtent(l, ans) ==
    LET \* lines 390-404: the argument of ST_AsBinary, else the first argument of
        \* ST_AsMVTGeom, becomes the geometry field of *l
        at(f) == {i \in DOMAIN l.sql : l.sql[i] = f /\ i < Len(l.sql)}
        arg(f) == l.sql[(CHOOSE i \in at(f) : \A j \in at(f) : i <= j) + 1]
        l1 == IF at("ST_AsBinary") # {} THEN [l EXCEPT !.geomField = arg("ST_AsBinary")]
              ELSE IF at("ST_AsMVTGeom") # {}
              THEN [l EXCEPT !.geomField = arg("ST_AsMVTGeom")]
              ELSE l
    IN  CASE ans.kind = "tokErr"  ->
                [l |-> l1, ext |-> WorldBox, err |-> TokenErr, probes |-> 0]
          [] ans.kind = "scanErr" ->
                [l |-> l1, ext |-> WorldBox, err |-> QueryErr, probes |-> 1]
          [] ans.kind = "box"     ->
                \* lines 433-437: minx, _ := strconv.ParseFloat(min[0], 64) and so
                \* on: the value is 0 when the text is no number, the error is dropped
                [l |-> l1, ext |-> [i \in 1..4 |-> IF i \in ans.bad THEN 0 ELSE ans.box[i]],
                 err |-> NoErr, probes |-> 1]
          [] OTHER ->
                [l |-> l1, ext |-> WorldBox,
                 err |-> [kind |-> "inspect layer extent error", name |-> l.name],
                 probes |-> 1]

\* postgis.go:445-452
inspectLayerMinZoom(l, ans) ==
    LET e == inspectLayerExtent(l, ans)
    IN  IF e.err # NoErr THEN [l |-> e.l, zoom |-> 0, probes |-> e.probes]
        ELSE [l |-> e.l, zoom |-> GetBoundZoomLevel(e.ext, 1920, 1080), probes |-> e.probes]

\* postgis.go:465-494: for ; z < maxZoom; z++ { ... }; return maxZoom
RECURSIVE CountLoop(_, _)
CountLoop(z, prof) ==
    IF ~(z < maxZoom) THEN [zoom |-> maxZoom, probes |-> 0]
    ELSE IF z = prof.fail /\ prof.tok THEN [zoom |-> maxZoom, probes |-> 0]
    ELSE IF z = prof.fail THEN [zoom |-> maxZoom, probes |-> 1]
    ELSE LET cnt == IF z >= prof.drop THEN 1023 ELSE 1024
         IN  IF cnt < 1024 THEN [zoom |-> z, probes |-> 1]
             ELSE LET r == CountLoop(z + 1, prof)
                  IN  [zoom |-> r.zoom, probes |-> r.probes + 1]

\* postgis.go:455-495
inspectLayerMaxZoom(l, ans, prof) ==
    LET e == inspectLayerExtent(l, ans)
    IN  IF e.err # NoErr THEN [l |-> e.l, zoom |-> maxZoom, probes |-> e.probes]
        ELSE LET r == CountLoop(GetBoundZoomLevel(e.ext, 1920, 1080), prof)
             IN  [l |-> e.l, zoom |-> r.zoom, probes |-> e.probes + r.probes]

\* the descriptor the call worked on is put back in the catalog
CatalogWrittenBack(cat, lyrID, l) == [cat EXCEPT ![lyrID] = l]

\* postgis.go:850, 860, 870: layer, ok := p.layers[lyrID] copies the descriptor
\* out of the map and the call works on &layer; the catalog after the call
CatalogAfter(cat, lyrID, l) == cat

\* the value the previous call returned, when it was the same accessor on the
\* same layer id
Prev(op, lyrID) ==
    IF pret.op = op /\ pret.id = lyrID
    THEN [same |-> TRUE, ext |-> pret.ext, zoom |-> pret.zoom]
    ELSE NoPRet.prev

\* postgis.go:848-855
LayerExtent(lyrID, ans) ==
    LET found == lyrID \in DOMAIN layers
        r == IF found THEN inspectLayerExtent(layers[lyrID], ans)
             ELSE [ext |-> WorldBox, err |-> [kind |-> "layer id not exist"], probes |-> 0]
    IN  /\ pret' = [NoPRet EXCEPT !.op = "LayerExtent", !.id = lyrID,
                                  !.ans = IF found THEN ans ELSE NoPRet.ans,
                                  !.ext = r.ext, !.err = r.err, !.probes = r.probes,
                                  !.prev = Prev("LayerExtent", lyrID)]
        /\ layers' = IF found THEN CatalogAfter(layers, lyrID, r.l) ELSE layers
        /\ UNCHANGED <<mret, firstlayer, tracked, atlas, regVars, unionVars, ctxErr, pc, call, rows,
                       cursorOpen, queries, sunk, warnings, result>>

\* postgis.go:858-865
LayerMinZoom(lyrID, ans) ==
    LET found == lyrID \in DOMAIN layers
        r == IF found THEN inspectLayerMinZoom(layers[lyrID], ans)
             ELSE [zoom |-> 0, probes |-> 0]
    IN  /\ pret' = [NoPRet EXCEPT !.op = "LayerMinZoom", !.id = lyrID,
                                  !.ans = IF found THEN ans ELSE NoPRet.ans,
                                  !.zoom = r.zoom, !.probes = r.probes,
                                  !.prev = Prev("LayerMinZoom", lyrID)]
        /\ layers' = IF found THEN CatalogAfter(layers, lyrID, r.l) ELSE layers
        /\ UNCHANGED <<mret, firstlayer, tracked, atlas, regVars, unionVars, ctxErr, pc, call, rows,
                       cursorOpen, queries, sunk, warnings, result>>

\* postgis.go:868-875
LayerMaxZoom(lyrID, ans, prof) ==
    LET found == lyrID \in DOMAIN layers
        r == IF found THEN inspectLayerMaxZoom(layers[lyrID], ans, prof)
             ELSE [zoom |-> maxZoom, probes |-> 0]
    IN  /\ pret' = [NoPRet EXCEPT !.op = "LayerMaxZoom", !.id = lyrID,
                                  !.ans = IF found THEN ans ELSE NoPRet.ans,
                                  !.zoom = r.zoom, !.probes = r.probes,
                                  !.prof = IF found THEN prof ELSE NoPRet.prof,
                                  !.prev = Prev("LayerMaxZoom", lyrID)]
        /\ layers' = IF found THEN CatalogAfter(layers, lyrID, r.l) ELSE layers
        /\ UNCHANGED <<mret, firstlayer, tracked, atlas, regVars, unionVars, ctxErr, pc, call, rows,
                       cursorOpen, queries, sunk, warnings, result>>

\* the query templates of the layer configurations
Template(kind) ==
    CASE kind = "binary" ->
            <<"SELECT", "gid", "ST_AsBinary", "geom", "FROM", "t", "WHERE", "geom", "&&", "!BBOX!">>
      [] kind = "mapnik" ->
            <<"SELECT", "gid", "ST_AsBinary", "geom", "FROM", "t", "WHERE", "geom", "&&", "!bbox!">>
      [] kind = "nobbox" ->
            <<"SELECT", "gid", "ST_AsBinary", "geom", "FROM", "t">>
      [] kind = "nogeom" ->
            <<"SELECT", "gid", "ST_AsBinary", "shape", "FROM", "t", "WHERE", "shape", "&&", "!BBOX!">>
      [] kind = "mvt" ->
            <<"SELECT", "gid", "ST_AsMVTGeom", "the_geom", "FROM", "t", "WHERE", "geom", "&&", "!BBOX!">>
      [] kind = "subquery" ->
            <<"(", "SELECT", "gid", "geom", "FROM", "t", ")", "AS", "sub">>

\* the dict.Dicter values passed to AddLayer: a base configuration with an
\* explicit template, and the base with one or two keys changed; Nil is a key
\* that is not set
LayerConfigs ==
    LET base(id) == [NoCfg EXCEPT !.id = id, !.name = id, !.idfld = "gid",
                                  !.sql = Template("binary")]
        variants(c) ==
            {c,
             [c EXCEPT !.geomType = "polygon"],
             [c EXCEPT !.geomType = "circle"],
             [c EXCEPT !.idfld = "geom"],
             [c EXCEPT !.name = Nil],
             [c EXCEPT !.sql = Template("mapnik")],
             [c EXCEPT !.sql = Template("nobbox")],
             [c EXCEPT !.sql = Template("nobbox"), !.geomType = "polygon"],
             [c EXCEPT !.sql = Template("nogeom")],
             [c EXCEPT !.sql = Template("mvt")],
             [c EXCEPT !.sql = Template("subquery")],
             [c EXCEPT !.sql = <<>>],
             [c EXCEPT !.sql = <<>>, !.type = "postgis"]}
    IN  {NoCfg} \cup UNION {variants(base(id)) : id \in LayerIDs}

\* what the backend and the query synthesizer come to during one AddLayer:
\* genSQL/genMvtSQL failing, and the geometry-type probe: replaceTokens fails,
\* the query fails, rows.Err() reports an error, no row, or a row with a type name
ProbeOutcomes ==
    {[genErr |-> FALSE, probe |-> p] :
         p \in {"tokErr", "queryErr", "rowsErr", "noRows", "ST_Polygon", "ST_Curve"}}
        \cup {[genErr |-> TRUE, probe |-> "ST_Polygon"]}

\* strings.Contains(sql, x): x is a sub-string of some piece of the text
Contains(sql, x) ==
    \/ x = ""
    \/ \E i \in DOMAIN sql : sql[i] = x \/ (x = "geom" /\ sql[i] = "the_geom")

\* postgis.go:81: the text starts with SELECT
isSelectQuery(sql) == sql # <<>> /\ sql[1] = "SELECT"

\* an error of AddLayer's own
LayerErr(why) == [kind |-> "postgis.AddLayer", why |-> why]

\* postgis.go:275-295; nothing is asked of the backend
setLayerGeomType(l, geomType) ==
    LET names == {"point", "linestring", "polygon", "multipoint", "multilinestring",
                  "multipolygon", "geometrycollection"}
    IN  IF geomType \in names
        THEN [l |-> [l EXCEPT !.geomType = IF geomType = "polygon" THEN "geom.Polygon"
                                            ELSE geomType],
              err |-> NoErr, probes |-> 0]
        ELSE [l |-> l, err |-> LayerErr("unsupported geometry_type"), probes |-> 0]

\* the probe is sent again after it was answered
inspectLayerGeomTypeTwice(l, probe) ==
    [l |-> l, err |-> NoErr, probes |-> IF probe = "tokErr" THEN 0 ELSE 2]

\* postgis.go:299-382
inspectLayerGeomType(l, probe) ==
    LET mvtAt == {i \in DOMAIN l.sql : l.sql[i] = "ST_AsMVTGeom"}
        \* lines 309-316: without ST_AsBinary, the first argument of ST_AsMVTGeom
        \* becomes the layer's geometry field
        l1 == IF ~Contains(l.sql, "ST_AsBinary") /\ mvtAt # {}
              THEN [l EXCEPT !.geomField = l.sql[(CHOOSE i \in mvtAt : TRUE) + 1]]
              ELSE l
    IN  CASE probe = "tokErr"   -> [l |-> l1, err |-> TokenErr, probes |-> 0]
          [] probe = "queryErr" -> [l |-> l1, err |-> QueryErr, probes |-> 1]
          [] probe = "rowsErr"  -> [l |-> l1, err |-> RowsErr, probes |-> 1]
          [] probe = "noRows"   -> [l |-> l1, err |-> NoErr, probes |-> 1]
          [] probe = "ST_Polygon" ->
                [l |-> [l1 EXCEPT !.geomType = "geom.Polygon"], err |-> NoErr, probes |-> 1]
          [] OTHER ->
                [l |-> l1, err |-> LayerErr("returned unsupported geometry type"),
                 probes |-> 1]

\* genSQL(&l, p.pool, tblName, fields, true) for the layer type "postgis", else
\* genMvtSQL: the template stdSQL (postgis.go:40), or its ST_AsMVTGeom form,
\* over the table
genSQL(layerType, l, tbl) ==
    <<"SELECT", IF layerType = "postgis" THEN "ST_AsBinary" ELSE "ST_AsMVTGeom",
      l.geomField, "FROM">> \o tbl \o <<"WHERE", l.geomField, "&&", "!BBOX!">>

\* any text passes for one with the bounding-box token
HasBBoxTokenAlways(sql) == TRUE

\* postgis.go:799: strings.Contains(sql, bboxToken)
HasBBoxToken(sql) == Contains(sql, "!BBOX!")

\* the descriptor is put in the catalog before anything is checked
PGAddLayerStoresFirst(cat, first, cfg, out) ==
    [layers |-> [i \in DOMAIN cat \cup {cfg.id} |->
                    IF i = cfg.id THEN [ZeroLayer EXCEPT !.id = cfg.id] ELSE cat[i]],
     firstlayer |-> first, err |-> LayerErr("duplicated"), probes |-> 0]

\* postgis.go:713-845: the catalog, firstlayer, the error and the number of
\* probe queries of AddLayer(cfg) on the catalog cat
PGAddLayer(cat, first, cfg, out) ==
    LET fail(e, f) == [layers |-> cat, firstlayer |-> f, err |-> e, probes |-> 0]
        f1      == IF DOMAIN cat = {} THEN cfg.id ELSE first
        geomfld == IF cfg.geomfld = Nil THEN "geom" ELSE cfg.geomfld
        idfld   == IF cfg.idfld = Nil THEN "" ELSE cfg.idfld
        l0      == [id |-> cfg.id, name |-> cfg.name, idField |-> idfld,
                    geomField |-> geomfld, srid |-> 3857, sql |-> <<>>, geomType |-> Nil]
        \* lines 788-793: a text that is no SELECT is used as the table
        select  == cfg.sql # <<>> /\ isSelectQuery(cfg.sql)
        tbl     == IF cfg.sql # <<>> /\ ~select THEN cfg.sql ELSE <<cfg.name>>
        \* line 797
        sql     == [i \in DOMAIN cfg.sql |->
                       IF cfg.sql[i] \in {"!BOX!", "!bbox!"} THEN "!BBOX!" ELSE cfg.sql[i]]
        l1      == [l0 EXCEPT !.sql = IF select THEN sql ELSE genSQL(cfg.type, l0, tbl)]
        \* lines 832-841
        g       == IF cfg.geomType # Nil THEN setLayerGeomType(l1, cfg.geomType)
                   ELSE inspectLayerGeomType(l1, out.probe)
    IN  IF cfg.id = Nil THEN fail(LayerErr("id"), first)
        ELSE IF cfg.id \in DOMAIN cat THEN fail(LayerErr("duplicated"), first)
        ELSE IF cfg.name = Nil THEN fail(LayerErr("name"), f1)
        ELSE IF idfld = geomfld THEN fail(LayerErr("same field"), f1)
        ELSE IF select /\ ~HasBBoxToken(sql) THEN fail(LayerErr("missing token"), f1)
        ELSE IF select /\ ~Contains(sql, "*") /\ ~Contains(sql, geomfld)
             THEN fail(LayerErr("no geometry field"), f1)
        ELSE IF select /\ ~Contains(sql, "*") /\ ~Contains(sql, idfld)
             THEN fail(LayerErr("no id field"), f1)
        ELSE IF ~select /\ out.genErr THEN fail(LayerErr("could not generate sql"), f1)
        ELSE IF g.err # NoErr
             THEN [layers |-> cat, firstlayer |-> f1, probes |-> g.probes,
                   err |-> Wrapped("error fetching geometry type", g.err)]
        ELSE [layers |-> [i \in DOMAIN cat \cup {cfg.id} |->
                             IF i = cfg.id THEN g.l ELSE cat[i]],
              firstlayer |-> f1, err |-> NoErr, probes |-> g.probes]

AddLayer(cfg, out) ==
    LET r == PGAddLayer(layers, firstlayer, cfg, out)
    IN  /\ layers' = r.layers
        /\ firstlayer' = r.firstlayer
        /\ pret' = [NoPRet EXCEPT !.op = "AddLayer", !.id = cfg.id, !.cfg = cfg,
                                  !.err = r.err, !.probes = r.probes]
        /\ UNCHANGED <<mret, tracked, atlas, ctxErr, pc, call, rows, cursorOpen, queries, sunk,
                       warnings, result, regVars, unionVars>>

NextAdd == \E cfg \in LayerConfigs, out \in ProbeOutcomes : AddLayer(cfg, out)

InitAdd == RegIdle /\ UnionIdle /\ TFIdle /\ PGIdle

SpecAdd == InitAdd /\ [][NextAdd]_vars

\* the layers registered before the accessors are asked: one with a configured
\* geometry type per layer id
ZoomConfigs ==
    {c \in LayerConfigs : c.geomType = "polygon" /\ c.sql = Template("binary")}

NextZoom ==
    \/ \E cfg \in ZoomConfigs, out \in ProbeOutcomes : AddLayer(cfg, out)
    \/ \E lyrID \in AskedIDs, ans \in ExtentAnswers : LayerExtent(lyrID, ans)
    \/ \E lyrID \in AskedIDs, ans \in ExtentAnswers : LayerMinZoom(lyrID, ans)
    \/ \E lyrID \in AskedIDs, ans \in ExtentAnswers, prof \in CountProfiles :
           LayerMaxZoom(lyrID, ans, prof)

InitZoom == RegIdle /\ UnionIdle /\ TFIdle /\ PGIdle

SpecZoom == InitZoom /\ [][NextZoom]_vars

(***************************************************************************)
(* postgis CreateProvider (postgis.go:108-214) and Cleanup (700-710).      *)
(***************************************************************************)

\* the most providers kept for Cleanup
MaxProviders == 2

\* the layer configurations of a provider's "layers" key
CreateConfigs ==
    {c \in LayerConfigs :
        /\ c.name # Nil
        /\ c.idfld = "gid"
        /\ \/ c.id = "roads" /\ c.sql = Template("binary") /\ c.geomType = Nil
           \/ c.id = "roads" /\ c.sql = Template("nobbox") /\ c.geomType = "polygon"
           \/ c.id = "lakes" /\ c.sql = Template("binary") /\ c.geomType = "polygon"}

\* config.MapSlice(ConfigKeyLayers): the configurations in the order of the file
CreateLists ==
    {cfgs \in UNION {[1..n -> CreateConfigs] : n \in 0..Cardinality(CreateConfigs)} :
        \A i, j \in DOMAIN cfgs : i # j => cfgs[i] # cfgs[j]}

\* postgis.go:200-208: p.layers = make(map[string]Layer), then AddLayer for the
\* first n configurations; errs are the values the AddLayer calls returned
RECURSIVE AddLayers(_, _, _)
AddLayers(cfgs, n, out) ==
    IF n = 0 THEN [layers |-> EmptyTable, firstlayer |-> "", errs |-> <<>>]
    ELSE LET a == AddLayers(cfgs, n - 1, out)
             r == PGAddLayer(a.layers, a.firstlayer, cfgs[n], out)
         IN  [layers |-> r.layers, firstlayer |-> r.firstlayer,
              errs |-> Append(a.errs, r.err)]

\* the whole call; cfgErr is the error of a provider key, of ConfigTLS, of
\* pgx.NewConnPool or of the layers key, which returns before any layer is added
CreateProvider(cfgErr, cfgs, out) ==
    LET a == AddLayers(cfgs, Len(cfgs), out)
    IN  /\ tracked < MaxProviders
        /\ IF cfgErr # NoErr
           THEN /\ pret' = [NoPRet EXCEPT !.op = "CreateProvider", !.err = cfgErr]
                /\ UNCHANGED <<layers, firstlayer, tracked>>
           ELSE /\ layers' = a.layers
                /\ firstlayer' = a.firstlayer
                /\ tracked' = tracked + 1
                /\ pret' = [NoPRet EXCEPT !.op = "CreateProvider", !.addErrs = a.errs]
        /\ UNCHANGED <<mret, atlas, ctxErr, pc, call, rows, cursorOpen, queries, sunk,
                       warnings, result, regVars, unionVars>>

\* postgis.go:700-710: every pool is closed and the list is emptied
PGCleanup ==
    /\ tracked' = 0
    /\ pret' = [NoPRet EXCEPT !.op = "Cleanup"]
    /\ UNCHANGED <<mret, firstlayer, atlas, regVars, unionVars, tfVars>>

NextCreate ==
    \/ \E cfgErr \in {NoErr, ConfigErr}, cfgs \in CreateLists, out \in ProbeOutcomes :
           CreateProvider(cfgErr, cfgs, out)
    \/ PGCleanup

InitCreate == RegIdle /\ UnionIdle /\ TFIdle /\ PGIdle

SpecCreate == InitCreate /\ [][NextCreate]_vars

(***************************************************************************)
(* Steady state: one TileFeatures call in progress while MVTForLayers and  *)
(* the extent and zoom accessors are called on the same provider.          *)
(***************************************************************************)

\* the catalog of a provider with two layers, roads with a template that
\* names its geometry in ST_AsMVTGeom
SteadyCatalog ==
    LET cfg(id, kind) == [NoCfg EXCEPT !.id = id, !.name = id, !.idfld = "gid",
                                       !.geomType = "polygon", !.sql = Template(kind)]
        out == [genErr |-> FALSE, probe |-> "ST_Polygon"]
    IN  AddLayers(<<cfg("roads", "mvt"), cfg("lakes", "binary")>>, 2, out).layers

InitSteady ==
    /\ RegIdle /\ UnionIdle
    /\ layers = SteadyCatalog
    /\ ctxErr = NoErr /\ pc = "idle" /\ call = NoCall /\ rows = <<>>
    /\ cursorOpen = FALSE /\ queries = 0 /\ sunk = <<>> /\ warnings = 0 /\ result = NoErr
    /\ mret = NoMRet /\ pret = NoPRet /\ firstlayer = "roads" /\ tracked = 1
    /\ atlas = [called |-> FALSE, cfg |-> <<>>, maps |-> <<>>, err |-> NoErr, at |-> <<0, 0>>]

NextSteady ==
    \/ \E lyrID \in AskedIDs : TFCall(lyrID, FALSE)
    \/ TFQueryCtx
    \/ \E cols \in ColumnSets : TFQuery(NoErr, cols)
    \/ TFGeomField
    \/ \E more \in BOOLEAN : TFNext(more, NoErr)
    \/ TFRowCtx
    \/ TFDecode("ok")
    \/ TFSink(NoErr)
    \/ \E lyrs \in {l \in LayerLists : Len(l) = 1} : MVTForLayers(lyrs, 0, NoErr)
    \/ \E lyrID \in AskedIDs, ans \in {a \in ExtentAnswers : a.box = WorldBox} :
           \/ LayerExtent(lyrID, ans)
           \/ LayerMinZoom(lyrID, ans)
           \/ \E prof \in {p \in CountProfiles : p.drop = 9} : LayerMaxZoom(lyrID, ans, prof)

SpecSteady == InitSteady /\ [][NextSteady]_vars

(***************************************************************************)
(* Layer lookup: Layer(lyrID) and Layers() of the postgis provider and of  *)
(* the debug provider.                                                     *)
(***************************************************************************)

\* debug.go:107-128: (p *Provider) Layer(lyrID)
debugLayer(lyrID) ==
    IF lyrID = "debug-tile-center"
    THEN [info |-> [id |-> "debug-tile-outline", name |-> "debug-tile-outline",
                    geomType |-> "geom.Line", srid |-> 3857],
          found |-> TRUE]
    ELSE IF lyrID = "debug-tile-outline"
    THEN [info |-> [id |-> "debug-tile-center", name |-> "debug-tile-center",
                    geomType |-> "geom.Point", srid |-> 3857],
          found |-> TRUE]
    ELSE [info |-> Nil, found |-> FALSE]

\* debug.go:84-104: (p *Provider) Layers(); the id of the two layers is not set
debugLayers ==
    {[id |-> "", name |-> "debug-tile-outline", geomType |-> "geom.Line", srid |-> 3857],
     [id |-> "", name |-> "debug-tile-center", geomType |-> "geom.Point", srid |-> 3857]}

DebugLayer(lyrID) ==
    /\ uret' = [NoURet EXCEPT !.op = "debug.Layer", !.lyrID = lyrID,
                              !.info = debugLayer(lyrID).info,
                              !.found = debugLayer(lyrID).found]
    /\ UNCHANGED <<tu, regVars, tfVars, pgVars>>

DebugLayers ==
    /\ uret' = [NoURet EXCEPT !.op = "debug.Layers", !.infos = debugLayers]
    /\ UNCHANGED <<tu, regVars, tfVars, pgVars>>

\* postgis.go:499-502: layer, ok := p.layers[lryID]; return layer, ok
PGLayer(lyrID) ==
    /\ uret' = [NoURet EXCEPT !.op = "postgis.Layer", !.lyrID = lyrID,
                              !.info = Lookup(layers, lyrID).plyr,
                              !.found = Lookup(layers, lyrID).ok]
    /\ UNCHANGED <<tu, regVars, tfVars, pgVars>>

\* postgis.go:505-511
PGLayers ==
    /\ uret' = [NoURet EXCEPT !.op = "postgis.Layers",
                              !.infos = {layers[i] : i \in DOMAIN layers}]
    /\ UNCHANGED <<tu, regVars, tfVars, pgVars>>

NextLookup ==
    \/ \E cfg \in ZoomConfigs, out \in ProbeOutcomes : AddLayer(cfg, out)
    \/ \E lyrID \in AskedIDs : PGLayer(lyrID)
    \/ PGLayers
    \/ \E lyrID \in {"debug-tile-outline", "debug-tile-center", "nosuch"} : DebugLayer(lyrID)
    \/ DebugLayers

InitLookup == RegIdle /\ UnionIdle /\ TFIdle /\ PGIdle

SpecLookup == InitLookup /\ [][NextLookup]_vars

(***************************************************************************)
(* Map registration: register.Maps and selectProvider.                     *)
(***************************************************************************)

\* the most layers of a configured map
MaxMapLayers == 3

\* the providers argument of Maps: a standard provider, two MVT providers
ProviderTable ==
    [id \in {"pg", "mvt1", "mvt2"} |->
        IF id = "pg" THEN [Std |-> "stdTiler", Mvt |-> Nil]
        ELSE [Std |-> Nil, Mvt |-> "mvtTiler"]]

\* the config.Map values: up to MaxMapLayers layers, each with the provider id
\* of its provider_layer, which may be no key of the table, and whether that
\* provider lists the layer; every provider_layer has the form provider.layer
MapConfigs ==
    LET lyrs == {[prd |-> p, reg |-> TRUE] : p \in {"pg", "mvt1", "mvt2", "gone"}}
                    \cup {[prd |-> "mvt1", reg |-> FALSE]}
    IN  {[name |-> "m", layers |-> l] :
            l \in UNION {[1..n -> lyrs] : n \in 0..MaxMapLayers}}

\* (m *atlas.Map) HasMVTProvider()
HasMVTProvider(newMap) == newMap.mvt # Nil

\* (m *atlas.Map) SetMVTProvider(name, p): the map with the provider set
SetMVTProvider(newMap, prdID) == [newMap EXCEPT !.mvt = prdID]

\* an MVT provider is taken for a map whatever layers the map has
selectProviderAnyMap(prdID, newMap, provs) ==
    IF prdID \in DOMAIN provs /\ provs[prdID].Std = Nil /\ provs[prdID].Mvt # Nil
    THEN [newMap |-> SetMVTProvider(newMap, prdID), layerer |-> prdID, err |-> NoErr]
    ELSE [newMap |-> newMap, layerer |-> prdID, err |-> NoErr]

\* maps.go:102-128: the map, the provider selected and the error
selectProvider(prdID, newMap, provs) ==
    LET fail(e) == [newMap |-> newMap, layerer |-> Nil, err |-> e]
    IN  IF HasMVTProvider(newMap)
        THEN IF newMap.mvt # prdID
             THEN fail([kind |-> "ErrMVTDifferentProviders", Original |-> newMap.mvt,
                        Current |-> prdID])
             ELSE [newMap |-> newMap, layerer |-> newMap.mvt, err |-> NoErr]
        ELSE IF prdID \in DOMAIN provs
        THEN IF provs[prdID].Std # Nil
             THEN [newMap |-> newMap, layerer |-> prdID, err |-> NoErr]
             ELSE IF provs[prdID].Mvt = Nil
             THEN fail([kind |-> "ErrProviderNotFound", id |-> prdID])
             ELSE IF Len(newMap.Layers) # 0
             THEN fail([kind |-> "ErrMixedProviders", Map |-> newMap.name])
             ELSE [newMap |-> SetMVTProvider(newMap, prdID), layerer |-> prdID,
                   err |-> NoErr]
        ELSE fail([kind |-> "ErrProviderNotFound", id |-> prdID])

\* maps.go:142-161: the layers of m from the i-th on; atlasLayerFromConfigLayer
\* (lines 47-100) fails when the provider does not list the layer
RECURSIVE MapLayers(_, _, _, _)
MapLayers(m, newMap, i, provs) ==
    IF i > Len(m.layers) THEN [newMap |-> newMap, err |-> NoErr, at |-> 0]
    ELSE LET l == m.layers[i]
             s == selectProvider(l.prd, newMap, provs)
         IN  IF s.err # NoErr THEN [newMap |-> s.newMap, err |-> s.err, at |-> i]
             ELSE IF ~l.reg
             THEN [newMap |-> s.newMap, at |-> i,
                   err |-> [kind |-> "ErrProviderLayerNotRegistered", Provider |-> l.prd]]
             ELSE MapLayers(m, [s.newMap EXCEPT !.Layers = Append(@, [prd |-> l.prd])],
                            i + 1, provs)

\* maps.go:139-164: the maps from the k-th on, added is what a.AddMap took so far
RECURSIVE MapsFrom(_, _, _, _)
MapsFrom(maps, k, added, provs) ==
    IF k > Len(maps) THEN [maps |-> added, err |-> NoErr, at |-> <<0, 0>>]
    ELSE LET r == MapLayers(maps[k], [name |-> maps[k].name, Layers |-> <<>>, mvt |-> Nil],
                            1, provs)
         IN  IF r.err # NoErr THEN [maps |-> added, err |-> r.err, at |-> <<k, r.at>>]
             ELSE MapsFrom(maps, k + 1, Append(added, r.newMap), provs)

\* maps.go:131-166 on an empty atlas
Maps(maps) ==
    LET r == MapsFrom(maps, 1, <<>>, ProviderTable)
    IN  /\ atlas' = [called |-> TRUE, cfg |-> maps, maps |-> r.maps, err |-> r.err,
                     at |-> r.at]
        /\ UNCHANGED <<mret, pret, firstlayer, tracked, regVars, unionVars, tfVars>>

\* one map, or a map of mvt1 layers followed by a map that mixes providers
NextMaps ==
    \/ \E m \in MapConfigs : Maps(<<m>>)
    \/ \E m \in {c \in MapConfigs : \A i \in DOMAIN c.layers :
                                       c.layers[i] = [prd |-> "mvt1", reg |-> TRUE]} :
           Maps(<<m, [name |-> "n", layers |-> <<[prd |-> "pg", reg |-> TRUE],
                                                 [prd |-> "mvt2", reg |-> TRUE]>>]>>)

InitMaps == RegIdle /\ UnionIdle /\ TFIdle /\ PGIdle

SpecMaps == InitMaps /\ [][NextMaps]_vars

(***************************************************************************)
(* Properties of the driver registry (checked under SpecReg)              *)
(***************************************************************************)
IsRegisterCall == ret.op \in {"Register", "MVTRegister"}

\* the capability kind an entry was registered with
KindOf(p) == IF p.init # Nil THEN TypeStd ELSE TypeMvt

\* C1: Register and MVTRegister share one name table.  A registration (with a
\* constructor) of a name that either function has already registered fails with
\* the "already exists" error and leaves the table as it was, and after any
\* sequence of calls every name maps to the constructor, kind and cleanup
\* callback stored by its first successful registration.
C1_FirstRegistrationKept ==
    /\ DOMAIN providers = DOMAIN firstReg
    /\ \A n \in DOMAIN providers : providers[n] = firstReg[n]
    /\ \A n \in DOMAIN ret.pre : n \in DOMAIN providers /\ providers[n] = ret.pre[n]
    /\ (IsRegisterCall /\ ret.name \in DOMAIN ret.pre) =>
           /\ ret.err # NoErr
           /\ providers = ret.pre
           /\ ret.init # Nil => ret.err = ErrAlreadyExists(ret.name)

\* a standard driver's name was registered again through MVTRegister
C1_Witness ==
    /\ ret.op = "MVTRegister"
    /\ ret.init # Nil
    /\ ret.name \in DOMAIN ret.pre
    /\ ret.pre[ret.name].init # Nil
    /\ ret.err = ErrAlreadyExists(ret.name)

\* C2: Register and MVTRegister called with a nil constructor fail with
\* ErrNilInitFunc and add no entry, whether or not the name is registered.
C2_NilConstructorRejected ==
    (IsRegisterCall /\ ret.init = Nil) =>
        /\ ret.err = ErrNilInitFunc
        /\ providers = ret.pre
        /\ providersNil = ret.preNil

\* a nil constructor was offered for a name that is registered
C2_Witness ==
    /\ ret.op = "Register"
    /\ ret.init = Nil
    /\ ret.name \in DOMAIN ret.pre
    /\ ret.err = ErrNilInitFunc

\* C3: For on a name that is not registered fails with ErrUnknownProvider whose
\* KnownProviders are exactly the registered names, invokes no constructor and
\* leaves the table unchanged.
C3_UnknownDriver ==
    (ret.op = "For" /\ ret.name \notin DOMAIN ret.pre) =>
        /\ ret.err.kind = "ErrUnknownProvider"
        /\ ret.err.KnownProviders = DOMAIN ret.pre
        /\ ret.ctor = Nil
        /\ ret.val = NilUnion
        /\ providers = ret.pre

\* For missed a name while a standard and an mvt driver were registered
C3_Witness ==
    /\ ret.op = "For"
    /\ ret.name \notin DOMAIN ret.pre
    /\ \E a, b \in DOMAIN ret.pre : ret.pre[a].init # Nil /\ ret.pre[b].mvtInit # Nil
    /\ ret.err.kind = "ErrUnknownProvider"

\* C4: For on a registered name returns, without an error, a union with exactly
\* the side of the driver's kind populated, and with an error a union with both
\* sides nil, whatever the constructor returned.
C4_UnionOneSideOrNone ==
    (ret.op = "For" /\ ret.name \in DOMAIN ret.pre) =>
        IF ret.err = NoErr
        THEN IF KindOf(ret.pre[ret.name]) = TypeStd
             THEN ret.val.Std # Nil /\ ret.val.Mvt = Nil
             ELSE ret.val.Mvt # Nil /\ ret.val.Std = Nil
        ELSE ret.val = NilUnion

\* C5: Drivers returns exactly the registered names whose kind is one of the
\* requested kinds, and every registered name when no kind is requested.
C5_DriversOrFilter ==
    ret.op = "Drivers" =>
        ret.list = {n \in DOMAIN ret.pre :
                       \/ ret.types = <<>>
                       \/ \E i \in 1..Len(ret.types) : ret.types[i] = KindOf(ret.pre[n])}

\* C8: Cleanup invokes the cleanup callback of every registered driver that has
\* one exactly once per call, skips the drivers without one and goes on, and
\* leaves the table unchanged.
C8_CleanupEachOnce ==
    ret.op = "Cleanup" =>
        /\ \A n \in Names :
               ret.cleaned[n] = IF n \in DOMAIN ret.pre /\ ret.pre[n].cleanup # Nil
                                THEN 1 ELSE 0
        /\ providers = ret.pre
        /\ providersNil = ret.preNil

\* Cleanup ran over a table with a driver without a callback and two with one
C8_Witness ==
    /\ ret.op = "Cleanup"
    /\ \E a, b, c \in DOMAIN ret.pre :
           /\ a # b
           /\ ret.pre[a].cleanup # Nil /\ ret.pre[b].cleanup # Nil
           /\ ret.pre[c].cleanup = Nil
           /\ ret.cleaned[a] = 1 /\ ret.cleaned[b] = 1 /\ ret.cleaned[c] = 0

(***************************************************************************)
(* Properties of TilerUnion (checked under SpecUnion)                      *)
(***************************************************************************)
\* C6: a TilerUnion with neither side populated fails with ErrNilInitFunc from
\* Layers and AddLayer, reports not-found from Layer, and reaches no backend.
C6_NoCapability ==
    tu = NilUnion =>
        /\ uret.reached = "none"
        /\ uret.op \in {"Layers", "AddLayer"} => uret.err = ErrNilInitFunc
        /\ uret.op = "Layers" => uret.infos = {}
        /\ uret.op = "Layer" => ~uret.found /\ uret.info = Nil

\* Layers was called on the empty union
C6_Witness ==
    /\ tu = NilUnion
    /\ uret.op = "Layers"
    /\ uret.err = ErrNilInitFunc

\* C7 as stated: on a TilerUnion with neither side populated LayerExtent returns
\* the world extent without an error, LayerMinZoom 0 and LayerMaxZoom 16.
C7_DefaultsWithoutError ==
    tu = NilUnion =>
        /\ uret.op = "LayerExtent" => uret.extent = WorldExtent /\ uret.err = NoErr
        /\ uret.op = "LayerMinZoom" => uret.zoom = DefaultMinZoom
        /\ uret.op = "LayerMaxZoom" => uret.zoom = DefaultMaxZoom

\* C7 as amended: LayerExtent returns the world extent together with
\* ErrNilInitFunc; LayerMinZoom returns 0 and LayerMaxZoom 16; no backend is
\* reached, whatever the layer id.
C7_DefaultsWithError ==
    tu = NilUnion =>
        /\ uret.reached = "none"
        /\ uret.op = "LayerExtent" =>
               uret.extent = WorldExtent /\ uret.err = ErrNilInitFunc
        /\ uret.op = "LayerMinZoom" => uret.zoom = DefaultMinZoom
        /\ uret.op = "LayerMaxZoom" => uret.zoom = DefaultMaxZoom

\* LayerExtent was called on the empty union
C7_Witness ==
    /\ tu = NilUnion
    /\ uret.op = "LayerExtent"
    /\ uret.lyrID \in LayerIDs
    /\ uret.extent = WorldExtent

(***************************************************************************)
(* Properties of postgis TileFeatures (checked under SpecTF)               *)
(***************************************************************************)
\* C9: TileFeatures on a layer id that is not in the catalog fails with
\* ErrLayerNotFound carrying the id, issues no query and never calls the sink.
C9_LayerNotFound ==
    (pc # "idle" /\ call.lyrID \notin DOMAIN layers) =>
        /\ pc = "done"
        /\ result = ErrLayerNotFound(call.lyrID)
        /\ queries = 0
        /\ rows = <<>>
        /\ sunk = <<>>
        /\ ~cursorOpen

\* a missing id was asked of a catalog that has layers
C9_Witness ==
    /\ pc = "done"
    /\ layers # EmptyTable
    /\ call.lyrID \notin DOMAIN layers
    /\ result = ErrLayerNotFound(call.lyrID)

\* C10: TileFeatures honours the context at its two checkpoints.  If the context
\* is done at the check before the query, no query is issued; a row fetched
\* after the context was done is never passed to the sink and ends the call; in
\* both cases the call returns ctx.Err() itself, unwrapped.
C10_CancellationCheckpoints ==
    /\ call.atCheck # NoErr =>
           /\ queries = 0
           /\ pc = "done"
           /\ result = call.atCheck
    /\ \A k \in 1..Len(sunk) : ~rows[sunk[k]].afterDone
    /\ \A i \in 1..Len(rows) :
           rows[i].afterDone =>
               /\ i = Len(rows)
               /\ rows[i].kind = "fetched"
               /\ pc \in {"rowctx", "done"}
               /\ pc = "done" => result = ctxErr

\* the context was cancelled while rows were streamed: an earlier row reached the
\* sink, the row fetched after the cancellation did not
C10_Witness ==
    /\ pc = "done"
    /\ Len(rows) >= 2
    /\ rows[Len(rows)].afterDone
    /\ Len(sunk) = Len(rows) - 1
    /\ result = Canceled

\* the row numbers of the rows that decoded, in result order
RECURSIVE DecodedRows(_, _)
DecodedRows(rs, i) ==
    IF i > Len(rs) THEN <<>>
    ELSE IF rs[i].kind = "ok" THEN <<i>> \o DecodedRows(rs, i + 1)
    ELSE DecodedRows(rs, i + 1)

\* C11: when the sink returns an error for a record the stream stops at once:
\* the sink is not called for a later row and TileFeatures returns exactly the
\* error value the sink returned.
C11_SinkErrorStops ==
    call.sinkRet # NoErr =>
        /\ pc = "done"
        /\ result = call.sinkRet
        /\ sunk # <<>>
        /\ sunk[Len(sunk)] = Len(rows)

\* the sink failed on the second record it was given
C11_Witness ==
    /\ pc = "done"
    /\ call.sinkRet = SinkErr
    /\ Len(sunk) = 2
    /\ result = SinkErr

\* C12: a row with an unsupported geometry encoding is skipped without failing
\* the stream: it is never passed to the sink and is not the reason of an
\* error, and of a result of N rows of which k are unsupported and the others
\* decode, the sink gets the N-k others, once each, in result order, and the
\* call returns no error (the sink and the cursor reporting none).
C12_UnsupportedRowsSkipped ==
    /\ \A i \in 1..Len(rows) :
           rows[i].kind = "unknownGeom" =>
               /\ \A k \in 1..Len(sunk) : sunk[k] # i
               /\ i = Len(rows) =>
                      \/ pc = "next"
                      \/ pc = "done" /\ result \in {NoErr, RowsErr}
    /\ (/\ pc = "done"
        /\ call.plyr.geomField \in call.fdescs
        /\ \A i \in 1..Len(rows) : rows[i].kind \in {"ok", "unknownGeom"}
        /\ call.sinkRet = NoErr
        /\ result # RowsErr) =>
           /\ sunk = DecodedRows(rows, 1)
           /\ result = NoErr

\* three rows, the second unsupported: the sink got the first and the third
C12_Witness ==
    /\ pc = "done"
    /\ Len(rows) = 3
    /\ rows[1].kind = "ok" /\ rows[2].kind = "unknownGeom" /\ rows[3].kind = "ok"
    /\ sunk = <<1, 3>>
    /\ result = NoErr

\* C13: when the geometry field is not among the result's columns the call
\* fails with ErrGeomFieldNotFound before a row is read; the sink is not called.
C13_GeomFieldMissing ==
    (/\ call.fdescs # {}
     /\ call.plyr.geomField \notin call.fdescs
     /\ pc # "fdescs") =>
        /\ pc = "done"
        /\ result = ErrGeomFieldNotFound(call.plyr.geomField, call.plyr.name)
        /\ rows = <<>>
        /\ sunk = <<>>

\* the query answered with columns that lack the layer's geometry field
C13_Witness ==
    /\ pc = "done"
    /\ queries = 1
    /\ "wkb_geometry" \in call.fdescs
    /\ result.kind = "ErrGeomFieldNotFound"

\* C14: every cursor TileFeatures opens is closed when the call returns, on
\* every exit path; a cursor is open only between the query and the return.
C14_CursorReleased ==
    /\ pc = "done" => ~cursorOpen
    /\ cursorOpen => pc \in {"fdescs", "next", "rowctx", "decode", "sink"} /\ queries = 1

\* the call returned the sink's error after it had opened a cursor
C14_Witness ==
    /\ pc = "done"
    /\ queries = 1
    /\ rows # <<>>
    /\ result = SinkErr
    /\ ~cursorOpen

\* the encode expressions MVTForLayers builds for the entries of lyrs that pick
\* out a catalog layer, in the order of lyrs
CatalogSqls(cat, lyrs) ==
    LET found == SelectSeq(lyrs, LAMBDA e : e.ID \in DOMAIN cat)
    IN  [i \in 1..Len(found) |->
            AsMVT(found[i], cat[found[i].ID], ReplaceTokens(cat[found[i].ID].sql))]

\* C15 as stated: MVTForLayers issues exactly one backend query per call; its
\* encode expressions are in the order of the input list and so are the blobs
\* of the returned bytes.
C15_ExactlyOneQuery ==
    mret.called =>
        /\ mret.queries = 1
        /\ Len(mret.sqls) = Len(mret.lyrs)
        /\ \A i \in 1..Len(mret.lyrs) : mret.sqls[i].name = mret.lyrs[i].MVTName
        /\ mret.err = NoErr =>
               mret.data = [i \in 1..Len(mret.lyrs) |-> [blob |-> mret.lyrs[i].MVTName]]

\* C15, amended: MVTForLayers issues at most one backend query per call: none,
\* returning the token-replacement error and no bytes, when token replacement
\* fails for an entry, and exactly one otherwise; in that query the i-th encode
\* expression is the one of the i-th input entry, and the returned bytes are the
\* blobs in input order.
C15_AtMostOneQueryInOrder ==
    mret.called =>
        /\ mret.queries \in {0, 1}
        /\ mret.queries = 0 =>
               /\ mret.err = TokenErr
               /\ mret.sqls = <<>>
               /\ mret.data = <<>>
        /\ mret.queries = 1 =>
               /\ Len(mret.sqls) = Len(mret.lyrs)
               /\ \A i \in 1..Len(mret.lyrs) :
                      LET l == Lookup(layers, mret.lyrs[i].ID).plyr
                      IN  mret.sqls[i] = AsMVT(mret.lyrs[i], l, ReplaceTokens(l.sql))
               /\ mret.err \in {NoErr, QueryErr}
               /\ mret.err = NoErr =>
                      mret.data =
                          [i \in 1..Len(mret.lyrs) |-> [blob |-> mret.lyrs[i].MVTName]]

\* three catalog layers were asked for, lakes first, and the query succeeded
C15_Witness ==
    /\ mret.called
    /\ mret.queries = 1
    /\ mret.err = NoErr
    /\ Len(mret.lyrs) = 3
    /\ \A i \in 1..3 : mret.lyrs[i].ID \in DOMAIN layers
    /\ mret.lyrs[1].ID = "lakes" /\ mret.lyrs[2].ID = "roads"
    /\ mret.data[1] = [blob |-> "water"] /\ mret.data[2] = [blob |-> "transport"]

\* C16: an input entry whose layer id is not in the catalog contributes nothing
\* to the combined query: the query has exactly one encode expression per entry
\* whose id is in the catalog, in input order.
C16_AbsentLayerOmitted ==
    (mret.called /\ mret.queries = 1) => mret.sqls = CatalogSqls(layers, mret.lyrs)

\* C17: MVTForLayers called with a context that is already done issues no
\* backend query and returns the context's error.
C17_CancelledBeforeQuery ==
    (mret.called /\ mret.atCall # NoErr) =>
        /\ mret.queries = 0
        /\ mret.err = mret.atCall

\* C18: for every layer of a postgis provider the zoom LayerMinZoom reports is
\* at most the zoom LayerMaxZoom reports, for every extent and every sequence of
\* probe results: what LayerMaxZoom returned is not below what LayerMinZoom
\* returns for the same answer of the backend's extent probe.
C18_MinZoomAtMostMaxZoom ==
    (pret.op = "LayerMaxZoom" /\ pret.id \in DOMAIN layers) =>
        inspectLayerMinZoom(layers[pret.id], pret.ans).zoom <= pret.zoom

\* C19: a layer's extent and zoom bounds are fixed at registration: LayerExtent,
\* LayerMinZoom and LayerMaxZoom on a registered layer send no probe query and
\* return what the previous call of the same accessor on that layer returned.
C19_FixedAtRegistration ==
    (pret.op \in {"LayerExtent", "LayerMinZoom", "LayerMaxZoom"}
         /\ pret.id \in DOMAIN layers) =>
        /\ pret.probes = 0
        /\ pret.prev.same => (pret.ext = pret.prev.ext /\ pret.zoom = pret.prev.zoom)

\* C20 as stated: AddLayer for a layer with an explicit query template sends no
\* probe query when the geometry type is configured and exactly one when it is
\* not.
C20_ZeroOrExactlyOneProbe ==
    (pret.op = "AddLayer" /\ isSelectQuery(pret.cfg.sql)) =>
        pret.probes = IF pret.cfg.geomType # Nil THEN 0 ELSE 1

\* C20, amended: AddLayer for a layer with an explicit query template sends no
\* probe query when the geometry type is configured; when it is not, it sends
\* exactly one geometry-type probe if the configuration passes AddLayer's checks
\* and the probe's token replacement succeeds, and none if AddLayer rejects the
\* layer before (duplicate id, missing name, id field equal to the geometry
\* field, template without !BBOX! or without the field names, token
\* replacement failure); a layer that gets registered this way was probed once.
C20_ProbeCount ==
    (pret.op = "AddLayer" /\ isSelectQuery(pret.cfg.sql)) =>
        /\ pret.cfg.geomType # Nil => pret.probes = 0
        /\ pret.cfg.geomType = Nil =>
               /\ pret.probes \in {0, 1}
               /\ pret.err.kind = "postgis.AddLayer" => pret.probes = 0
               /\ (pret.err.kind = "fmt.Errorf" /\ pret.err.cause = TokenErr.kind) =>
                      pret.probes = 0
               /\ (pret.err.kind = "fmt.Errorf" /\ pret.err.cause # TokenErr.kind) =>
                      pret.probes = 1
               /\ pret.err = NoErr => (pret.probes = 1 /\ pret.id \in DOMAIN layers)

\* a layer with an explicit template and no geometry type was registered after
\* one probe that reported polygons
C20_Witness ==
    /\ pret.op = "AddLayer"
    /\ pret.cfg.sql = Template("binary")
    /\ pret.cfg.geomType = Nil
    /\ pret.err = NoErr
    /\ pret.probes = 1
    /\ pret.id \in DOMAIN layers
    /\ layers[pret.id].geomType = "geom.Polygon"

\* C21: an AddLayer call that fails (duplicate layer id, id field equal to the
\* geometry field, explicit template without the bounding-box token,
\* unsupported geometry type, probe failure, ...) leaves the layer catalog as
\* it was: no descriptor is added and none is overwritten.
C21_FailedAddLayerKeepsCatalog ==
    [][(pret'.op = "AddLayer" /\ pret'.err # NoErr) => layers' = layers]_vars

\* a second configuration for a registered id, with another template, was
\* rejected and the first descriptor is still the one in the catalog
C21_Witness ==
    /\ pret.op = "AddLayer"
    /\ pret.err = LayerErr("duplicated")
    /\ pret.cfg.sql = Template("mvt")
    /\ pret.id \in DOMAIN layers
    /\ layers[pret.id].sql = Template("binary")

\* C22: AddLayer rejects, at registration and before any probe, an explicit
\* SELECT template that lacks !BBOX! after !BOX! and !bbox! were rewritten to
\* it; a layer registered with an explicit SELECT template is stored with the
\* rewritten template, which has !BBOX!.  (Every descriptor enters the catalog
\* through such a call.)
C22_StoredTemplateHasBBox ==
    (pret.op = "AddLayer" /\ isSelectQuery(pret.cfg.sql)) =>
        LET sql == [i \in DOMAIN pret.cfg.sql |->
                       IF pret.cfg.sql[i] \in {"!BOX!", "!bbox!"} THEN "!BBOX!"
                       ELSE pret.cfg.sql[i]]
        IN  /\ ~Contains(sql, "!BBOX!") => (pret.err # NoErr /\ pret.probes = 0)
            /\ pret.err = NoErr =>
                   /\ pret.id \in DOMAIN layers
                   /\ layers[pret.id].sql = sql
                   /\ Contains(layers[pret.id].sql, "!BBOX!")

\* a template without the token was rejected for a new layer id, next to a
\* layer that was registered with the !bbox! spelling
C22_Witness ==
    /\ pret.op = "AddLayer"
    /\ pret.cfg.sql = Template("nobbox")
    /\ pret.err = LayerErr("missing token")
    /\ pret.id \notin DOMAIN layers
    /\ \E id \in DOMAIN layers : layers[id].sql = Template("binary")

\* C23: when AddLayer failed for a configured layer, CreateProvider returns an
\* error: it does not report success.
C23_LayerErrorPropagated ==
    (pret.op = "CreateProvider" /\ \E i \in DOMAIN pret.addErrs : pret.addErrs[i] # NoErr) =>
        pret.err # NoErr

\* C24: steady-state calls share no mutable catalog state: no step of any
\* interleaving of TileFeatures, MVTForLayers, LayerExtent, LayerMinZoom and
\* LayerMaxZoom calls changes a descriptor of the catalog, and the descriptor a
\* TileFeatures call in progress works with stays the catalog's.
C24_CatalogReadOnly ==
    /\ [][layers' = layers]_vars
    /\ []((pc # "idle" /\ call.lyrID \in DOMAIN layers) => call.plyr = layers[call.lyrID])

\* in the middle of a TileFeatures stream on roads, LayerExtent was called for
\* roads, whose template names another geometry field than the descriptor, and
\* MVTForLayers was called too
C24_Witness ==
    /\ pc = "next" /\ rows # <<>> /\ call.lyrID = "roads"
    /\ pret.op = "LayerExtent" /\ pret.id = "roads" /\ pret.probes = 1
    /\ mret.called
    /\ layers["roads"].geomField = "geom"
    /\ Contains(layers["roads"].sql, "the_geom")

\* C25: max-zoom detection, for a detected min zoom m and counts that do not
\* increase with the zoom and no failing probe, returns the first probed zoom
\* with a count below 1024, probing upwards from m and stopping there, returns
\* the ceiling 16 when no probed zoom is below 1024, and sends at most 16 - m
\* count probes.
C25_FirstZoomBelowThreshold ==
    (/\ pret.op = "LayerMaxZoom" /\ pret.id \in DOMAIN layers
     /\ pret.ans.kind = "box" /\ pret.ans.bad = {} /\ pret.prof.fail = 99) =>
        LET m      == GetBoundZoomLevel(pret.ans.box, 1920, 1080)
            below  == {z \in m..(maxZoom - 1) : z >= pret.prof.drop}
            first  == CHOOSE z \in below : \A y \in below : z <= y
            counts == pret.probes - 1
        IN  /\ pret.zoom = IF below = {} THEN maxZoom ELSE first
            /\ below # {} => counts = first - m + 1
            /\ counts <= maxZoom - m

\* C26: every descriptor of a postgis catalog has one of the 7 canonical
\* geometry kinds: an AddLayer whose geometry-type probe returns no row or an
\* unrecognized type name fails and the layer is not registered.
C26_GeomKindCanonical ==
    \A id \in DOMAIN layers :
        layers[id].geomType \in {"point", "linestring", "geom.Polygon", "multipoint",
                                 "multilinestring", "multipolygon", "geometrycollection"}

\* C27: within one TileFeatures call the unsupported-geometry warning is logged
\* at most once for the layer and geometry field, however many rows of the
\* result have an unsupported geometry encoding.
C27_WarnedAtMostOnce == warnings <= 1

\* C28: extent detection returns four bounds only when the backend's text has
\* the pattern BOX(minx miny,maxx maxy) with four parsable numbers; when the
\* pattern is absent or one of the numbers is unparsable it fails with the
\* extent parse error.
C28_BoundsOnlyWhenParsable ==
    (/\ pret.op = "LayerExtent" /\ pret.id \in DOMAIN layers
     /\ pret.ans.kind \in {"noBox", "box"}) =>
        IF pret.ans.kind = "box" /\ pret.ans.bad = {}
        THEN pret.err = NoErr /\ pret.ext = pret.ans.box
        ELSE pret.err = [kind |-> "inspect layer extent error",
                         name |-> layers[pret.id].name]

\* C29: single-layer lookup agrees with the catalog's id mapping, for the
\* postgis provider and for the debug provider: when Layer(id) reports found
\* the descriptor's ID() is id, and every descriptor Layers() returns is found
\* by Layer(its ID()).
C29_LookupMatchesCatalog ==
    /\ (uret.op \in {"postgis.Layer", "debug.Layer"} /\ uret.found) =>
           uret.info.id = uret.lyrID
    /\ uret.op = "postgis.Layers" =>
           \A d \in uret.infos : /\ Lookup(layers, d.id).ok
                                 /\ Lookup(layers, d.id).plyr = d
    /\ uret.op = "debug.Layers" =>
           \A d \in uret.infos : /\ debugLayer(d.id).found
                                 /\ debugLayer(d.id).info.name = d.name

\* C30: map registration never mixes an MVT provider with other providers:
\* selectProvider fails with ErrMixedProviders when an MVT provider is selected
\* for a map that has layers already, and with ErrMVTDifferentProviders when a
\* map that has an MVT provider is given a layer of another provider id; so no
\* configured map that mixes them is registered, and every registered map with
\* an MVT provider has all its layers from that provider.
C30_NoMixedMVTProviders ==
    LET isMvt(p) == /\ p \in DOMAIN ProviderTable
                    /\ ProviderTable[p].Std = Nil /\ ProviderTable[p].Mvt # Nil
        mixed(L) == \E i, j \in DOMAIN L : isMvt(L[i].prd) /\ L[j].prd # L[i].prd
        L == atlas.cfg[atlas.at[1]].layers
        i == atlas.at[2]
    IN  atlas.called =>
            /\ \A k \in DOMAIN atlas.maps :
                   atlas.maps[k].mvt # Nil =>
                       \A n \in DOMAIN atlas.maps[k].Layers :
                           atlas.maps[k].Layers[n].prd = atlas.maps[k].mvt
            /\ \A k \in DOMAIN atlas.cfg :
                   mixed(atlas.cfg[k].layers) =>
                       atlas.err # NoErr /\ Len(atlas.maps) < k
            /\ atlas.err # NoErr =>
                   /\ (isMvt(L[1].prd) /\ L[i].prd # L[1].prd) =>
                          atlas.err.kind = "ErrMVTDifferentProviders"
                   /\ (i > 1 /\ ~isMvt(L[1].prd) /\ isMvt(L[i].prd)) =>
                          atlas.err.kind = "ErrMixedProviders"

\* a map with two layers of one MVT provider was registered, and the next map
\* of the same call, with a standard layer followed by an MVT layer, was refused
C30_Witness ==
    /\ atlas.called
    /\ atlas.err # NoErr /\ atlas.err.kind = "ErrMixedProviders"
    /\ Len(atlas.maps) = 1
    /\ atlas.maps[1].mvt = "mvt1" /\ Len(atlas.maps[1].Layers) = 2

====
